---- MODULE Spec2Model ----
(***************************************************************************)
(* Model of the Maji Ndogo ETL pipeline:                                   *)
(*   field_data_processor.py   FieldDataProcessor                          *)
(*   weather_data_processor.py WeatherDataProcessor                        *)
(*   analysis.py               hypothesis_results                          *)
(* Tables are pandas DataFrames: a sequence of column labels and a         *)
(* sequence of rows, each row a sequence of cells aligned with the labels. *)
(***************************************************************************)
EXTENDS Integers, Sequences, FiniteSets, TLC

VARIABLES
    \* FieldDataProcessor
    fpc,                \* position in the caller's use of the processor
    columns_to_rename,  \* self.columns_to_rename: ordered dict, a sequence of <<key, value>>
    values_to_rename,   \* self.values_to_rename: dict string -> string
    sql_table,          \* what query_data returns for self.sql_query
    weather_map_csv,    \* what read_from_web_CSV returns for self.weather_map_data
    df,                 \* self.df
    prev_df,            \* history: self.df before the last step
    error,              \* exception raised to the caller, "none" when there is none
    ncalls,             \* number of direct rename_columns calls made by the caller
    \* WeatherDataProcessor
    wpc,                \* position in the caller's use of the processor
    patterns,           \* self.patterns: ordered dict, a sequence of [key, pattern]
    weather_csv,        \* what read_from_web_CSV returns for self.weather_station_data
    weather_df,         \* self.weather_df
    returned,           \* what the last process_messages call returned or raised
    \* one extract_measurement call
    message,            \* the message argument
    result,             \* what the call returned or raised, Unset before the call
    \* one hypothesis_results call
    hpc,                \* position in the loops of hypothesis_results
    h_field_df,         \* the field_df argument
    h_weather_df,       \* the weather_df argument
    list_measurements_to_compare,
    alpha,
    station_ix,         \* index of the current station in unique_station_ids
    measurement_ix,     \* index of the current measurement in the inner loop
    stdout              \* what has been printed so far

field_vars == <<fpc, columns_to_rename, values_to_rename, sql_table,
                weather_map_csv, df, prev_df, error, ncalls>>
weather_vars == <<wpc, weather_csv, weather_df, returned>>
extract_vars == <<message, result>>
analysis_vars == <<hpc, h_field_df, h_weather_df, list_measurements_to_compare,
                   alpha, station_ix, measurement_ix, stdout>>

vars == <<field_vars, patterns, weather_vars, extract_vars, analysis_vars>>

-----------------------------------------------------------------------------
(* Cells and tables *)

\* A DataFrame cell: a string, a number, or null (None / NaN).
\* A number is n * 10^-e; a text is a sequence of characters.
Str(s) == [k |-> "str", s |-> s, n |-> 0, e |-> 0, t |-> <<>>]
Num(i) == [k |-> "num", s |-> "", n |-> i, e |-> 0, t |-> <<>>]
Float(m, x) == [k |-> "num", s |-> "", n |-> m, e |-> x, t |-> <<>>]
Text(cs) == [k |-> "text", s |-> "", n |-> 0, e |-> 0, t |-> cs]
Null == [k |-> "null", s |-> "", n |-> 0, e |-> 0, t |-> <<>>]

\* self.df = None
None == [k |-> "None"]

Table(cols, rows) == [k |-> "DataFrame", columns |-> cols, rows |-> rows]

Range(s) == {s[i] : i \in 1..Len(s)}

\* Body applied to the value of v, computed once
With(v, Body(_)) == CHOOSE y \in {Body(x) : x \in {v}} : TRUE

\* label in df.columns
HasColumn(t, c) == c \in Range(t.columns)

\* position of the first column labelled c
ColIndex(t, c) == CHOOSE i \in 1..Len(t.columns) :
                     /\ t.columns[i] = c
                     /\ \A j \in 1..(i-1) : t.columns[j] # c

\* df[c] as the sequence of the column's cells
Column(t, c) == [r \in 1..Len(t.rows) |-> t.rows[r][ColIndex(t, c)]]

\* df[c] = cells: replace the cells of the column labelled c
SetColumn(t, c, cells) ==
    Table(t.columns,
          [r \in 1..Len(t.rows) |->
              [i \in 1..Len(t.columns) |->
                  IF i = ColIndex(t, c) THEN cells[r] ELSE t.rows[r][i]]])

\* DataFrame.rename(columns=mapper): labels missing from the table are ignored
Rename(t, mapper) ==
    Table([i \in 1..Len(t.columns) |->
              IF t.columns[i] \in DOMAIN mapper THEN mapper[t.columns[i]]
                                                ELSE t.columns[i]],
          t.rows)

\* the outcome of a method: it returns, or it raises exc; df is self.df afterwards
Returned(t) == [exc |-> "none", df |-> t]
Raised(e, t) == [exc |-> e, df |-> t]

NoError == [exc |-> "none", at |-> "none"]

\* a call that has not been made
Unset == [exc |-> "unset"]

\* the components a specification leaves unused
FieldUnused ==
    /\ fpc = "unused" /\ columns_to_rename = <<>> /\ values_to_rename = <<>>
    /\ sql_table = None /\ weather_map_csv = None /\ df = None /\ prev_df = None
    /\ error = NoError /\ ncalls = 0
WeatherUnused ==
    /\ wpc = "unused" /\ weather_csv = None /\ weather_df = None /\ returned = Unset
ExtractUnused ==
    /\ message = <<>> /\ result = Unset
AnalysisUnused ==
    /\ hpc = "unused" /\ h_field_df = None /\ h_weather_df = None
    /\ list_measurements_to_compare = <<>> /\ alpha = 0
    /\ station_ix = 0 /\ measurement_ix = 0 /\ stdout = <<>>

-----------------------------------------------------------------------------
(* FieldDataProcessor.rename_columns *)

TempNameBase == "__temp_name_for_swap__"

\* while temp_name in self.df.columns: temp_name += "_"
RECURSIVE TempName(_, _)
TempName(t, name) ==
    IF HasColumn(t, name) THEN TempName(t, name \o "_") ELSE name

\* a placeholder that is not checked against the existing labels
rename_columns_fixed_temp(t, ctr) ==
    IF Len(ctr) = 0 THEN Raised("IndexError", t)
    ELSE LET column1 == ctr[1][1]
             column2 == ctr[1][2]
             first == Rename(t, (column2 :> column1) @@ (column1 :> TempNameBase))
         IN  Returned(Rename(first, (TempNameBase :> column2)))

\* ctr is the ordered dict self.columns_to_rename; [0] of an empty list raises.
\* In the dict literal {column1: ..., column2: ...} the later key wins.
rename_columns(t, ctr) ==
    IF Len(ctr) = 0 THEN Raised("IndexError", t)
    ELSE LET column1 == ctr[1][1]
             column2 == ctr[1][2]
             temp_name == TempName(t, TempNameBase)
             first == Rename(t, (column2 :> column1) @@ (column1 :> temp_name))
         IN  Returned(Rename(first, (temp_name :> column2)))

-----------------------------------------------------------------------------
(* FieldDataProcessor.apply_corrections *)

\* the sign is left as it is
AbsCellKeepsSign(c) == c

\* Series.abs(): NaN stays NaN
AbsCell(c) == IF c.k = "num" /\ c.n < 0 THEN Float(0 - c.n, c.e) ELSE c

\* unknown values become null
CorrectCellOrNull(vtr, crop) ==
    IF crop.k = "str" /\ crop.s \in DOMAIN vtr THEN Str(vtr[crop.s]) ELSE Null

\* lambda crop: self.values_to_rename.get(crop, crop)
CorrectCell(vtr, crop) ==
    IF crop.k = "str" /\ crop.s \in DOMAIN vtr THEN Str(vtr[crop.s]) ELSE crop

\* column_name='Crop_type', abs_column='Elevation'; the first assignment has
\* already replaced self.df's column when the second lookup raises.
apply_corrections(t, vtr) ==
    IF ~HasColumn(t, "Elevation") THEN Raised("KeyError", t)
    ELSE IF \E r \in 1..Len(t.rows) : Column(t, "Elevation")[r].k \in {"str", "text"}
         THEN Raised("TypeError", t)
    ELSE LET t1 == SetColumn(t, "Elevation",
                      [r \in 1..Len(t.rows) |-> AbsCell(Column(t, "Elevation")[r])])
         IN  IF ~HasColumn(t1, "Crop_type") THEN Raised("KeyError", t1)
             ELSE Returned(SetColumn(t1, "Crop_type",
                      [r \in 1..Len(t1.rows) |->
                          CorrectCell(vtr, Column(t1, "Crop_type")[r])]))

-----------------------------------------------------------------------------
(* FieldDataProcessor.process: the join with the station mapping *)

\* the positions of the columns of t other than the key
NonKey(t, key) == SelectSeq([i \in 1..Len(t.columns) |-> i],
                            LAMBDA i : t.columns[i] # key)

\* labels of the merged frame: a non-key label present on both sides gets a suffix
MergedLabel(t, other, i, suffix) ==
    IF HasColumn(other, t.columns[i]) THEN t.columns[i] \o suffix ELSE t.columns[i]

\* the right rows whose key equals the key of the left row, in right order
Matches(right, rk, cell) ==
    SelectSeq([j \in 1..Len(right.rows) |-> j], LAMBDA j : right.rows[j][rk] = cell)

RECURSIVE Flatten(_)
Flatten(ss) == IF ss = <<>> THEN <<>> ELSE Head(ss) \o Flatten(Tail(ss))

\* how='left': every left row, in left order, once per matching right row, or
\* once with nulls when no right row matches
JoinedRows(left, right, key) ==
    LET lk == ColIndex(left, key)
        rk == ColIndex(right, key)
        rnk == NonKey(right, key)
        Joined(lrow, j) == lrow \o [c \in 1..Len(rnk) |-> right.rows[j][rnk[c]]]
        For(lrow) ==
            LET m == Matches(right, rk, lrow[lk])
            IN  IF m = <<>> THEN << lrow \o [c \in 1..Len(rnk) |-> Null] >>
                ELSE [x \in 1..Len(m) |-> Joined(lrow, m[x])]
    IN  Flatten([r \in 1..Len(left.rows) |-> For(left.rows[r])])

\* DataFrame.merge(right, on=key, how='left')
Merge(left, right, key) ==
    IF ~HasColumn(left, key) \/ ~HasColumn(right, key) THEN Raised("KeyError", left)
    ELSE LET rnk == NonKey(right, key)
             cols == [i \in 1..Len(left.columns) |->
                         IF left.columns[i] = key THEN key
                         ELSE MergedLabel(left, right, i, "_x")]
                     \o [c \in 1..Len(rnk) |-> MergedLabel(right, left, rnk[c], "_y")]
         IN  Returned(Table(cols, JoinedRows(left, right, key)))

\* DataFrame.drop(columns=c): an absent label raises
Drop(t, c) ==
    IF ~HasColumn(t, c) THEN Raised("KeyError", t)
    ELSE LET keep == SelectSeq([i \in 1..Len(t.columns) |-> i],
                               LAMBDA i : t.columns[i] # c)
         IN  Returned(Table([i \in 1..Len(keep) |-> t.columns[keep[i]]],
                            [r \in 1..Len(t.rows) |->
                                [i \in 1..Len(keep) |-> t.rows[r][keep[i]]]]))

\* lines 147-148: self.df is the merged frame when the drop raises
merge_and_drop(t, wmap) ==
    LET merged == Merge(t, wmap, "Field_ID")
    IN  IF merged.exc # "none" THEN merged ELSE Drop(merged.df, "Unnamed: 0")

-----------------------------------------------------------------------------
(* Inputs of the field pipeline *)

MaxFieldRows == 2
MaxMapRows == 2
MaxRenameCalls == 2
MaxSwapCols == 3

SeqsUpTo(S, n) == UNION {[1..k -> S] : k \in 0..n}

\* config_params of validate_data.py, and variations of its two dictionaries
FixtureColumns == << <<"Annual_yield", "Crop_type">>, <<"Crop_type", "Annual_yield">> >>
FixtureValues ==
    ("cassaval" :> "cassava") @@ ("cassava " :> "cassava") @@ ("wheatn" :> "wheat")
    @@ ("wheat " :> "wheat") @@ ("teaa" :> "tea") @@ ("tea " :> "tea")

ConfigPool ==
    { [columns_to_rename |-> FixtureColumns, values_to_rename |-> FixtureValues],
      [columns_to_rename |-> <<>>, values_to_rename |-> FixtureValues],
      [columns_to_rename |-> << <<"Annual_yield", "Crop_type">> >>,
       values_to_rename |-> ("wheatn" :> "wheat")],
      [columns_to_rename |-> << <<"Crop_type", "Annual_yield">> >>,
       values_to_rename |-> ("wheatn" :> "wheat ") @@ ("wheat " :> "wheat")] }

\* valid_crop_types of test_crop_types_are_valid
ValidCropTypes == {"cassava", "wheat", "tea", "potato", "maize", "rice", "banana", "coffee"}

\* survey rows as the database holds them: the crop is stored under Annual_yield
\* and the yield under Crop_type
FieldRowPool ==
    { [id |-> 1, elev |-> 0 - 5, crop |-> "wheatn", yield |-> 7],
      [id |-> 2, elev |-> 3, crop |-> "maize", yield |-> 2],
      [id |-> 3, elev |-> 0 - 2, crop |-> "barley", yield |-> 4] }

FieldLayouts ==
    { <<"Field_ID", "Elevation", "Annual_yield", "Crop_type">>,
      <<"Field_ID", "Elevation", "Annual_yield">>,
      <<"Field_ID", "Elevation", "Crop_type">>,
      <<"Field_ID", "Annual_yield", "Crop_type">>,
      <<"Field_ID", "Elevation", "Annual_yield", "Crop_type", "__temp_name_for_swap__">> }

FieldCell(p, c) ==
    CASE c = "Field_ID" -> Num(p.id)
      [] c = "Elevation" -> Num(p.elev)
      [] c = "Annual_yield" -> Str(p.crop)
      [] c = "Crop_type" -> Num(p.yield)
      [] OTHER -> Null

\* the tables query_data can return
SqlTables ==
    { Table(cols, [r \in 1..Len(ps) |-> [i \in 1..Len(cols) |-> FieldCell(ps[r], cols[i])]]) :
        cols \in FieldLayouts, ps \in SeqsUpTo(FieldRowPool, MaxFieldRows) }

\* rows of the mapping CSV: Field_ID, Weather_station
MapRowPool == { <<1, 0>>, <<1, 4>>, <<2, 1>> }

\* the tables read_from_web_CSV can return for the mapping: the CSV carries its
\* row index as the column "Unnamed: 0"
MappingTables ==
    { Table(<<"Unnamed: 0", "Field_ID", "Weather_station">>,
            [r \in 1..Len(ms) |-> <<Num(r - 1), Num(ms[r][1]), Num(ms[r][2])>>]) :
        ms \in SeqsUpTo(MapRowPool, MaxMapRows) }

-----------------------------------------------------------------------------
(* FieldDataProcessor: construction and the steps of process() *)

\* __init__: the configuration is stored, nothing is validated, df is None
Init ==
    /\ \E cfg \in ConfigPool :
          /\ columns_to_rename = cfg.columns_to_rename
          /\ values_to_rename = cfg.values_to_rename
    /\ sql_table \in SqlTables
    /\ weather_map_csv \in MappingTables
    /\ df = None
    /\ prev_df = None
    /\ fpc = "init"
    /\ error = NoError
    /\ ncalls = 0
    /\ patterns = <<>>
    /\ WeatherUnused /\ ExtractUnused /\ AnalysisUnused

\* a step of process(): self.df becomes out.df; an exception ends process()
Step(at, out, next) ==
    /\ prev_df' = df
    /\ df' = out.df
    /\ IF out.exc = "none"
       THEN fpc' = next /\ error' = error
       ELSE fpc' = "failed" /\ error' = [exc |-> out.exc, at |-> at]
    /\ UNCHANGED <<columns_to_rename, values_to_rename, sql_table, weather_map_csv, ncalls>>
    /\ UNCHANGED <<patterns, weather_vars, extract_vars, analysis_vars>>

IngestSqlData ==
    /\ fpc = "init"
    /\ Step("ingest_sql_data", Returned(sql_table), "ingested")

RenameColumns ==
    /\ fpc = "ingested"
    /\ Step("rename_columns", rename_columns(df, columns_to_rename), "renamed")

ApplyCorrections ==
    /\ fpc = "renamed"
    /\ Step("apply_corrections", apply_corrections(df, values_to_rename), "corrected")

MergeWeatherMapping ==
    /\ fpc = "corrected"
    /\ Step("merge", merge_and_drop(df, weather_map_csv), "done")

Next == IngestSqlData \/ RenameColumns \/ ApplyCorrections \/ MergeWeatherMapping

Spec == Init /\ [][Next]_vars

-----------------------------------------------------------------------------
(* A caller that loads a table and calls rename_columns directly, repeatedly *)

SwapNamePool == {"Annual_yield", "Crop_type", "Elevation",
                 "__temp_name_for_swap__", "__temp_name_for_swap___"}

SwapConfigs ==
    {cfg.columns_to_rename : cfg \in ConfigPool}
    \cup { << <<"Annual_yield", "Annual_yield">> >>,
           << <<"__temp_name_for_swap__", "Crop_type">> >> }

\* tables with distinct labels; the cell under a label records where it started
SwapTables ==
    { Table(cols, << [i \in 1..Len(cols) |-> Num(i)] >>) :
        cols \in {c \in SeqsUpTo(SwapNamePool, MaxSwapCols) :
                    \A i, j \in 1..Len(c) : c[i] = c[j] => i = j} }

InitSwap ==
    /\ columns_to_rename \in SwapConfigs
    /\ values_to_rename = FixtureValues
    /\ sql_table \in SwapTables
    /\ weather_map_csv = Table(<<>>, <<>>)
    /\ df = sql_table
    /\ prev_df = None
    /\ fpc = "ingested"
    /\ error = NoError
    /\ ncalls = 0
    /\ patterns = <<>>
    /\ WeatherUnused /\ ExtractUnused /\ AnalysisUnused

CallRenameColumns ==
    /\ fpc = "ingested"
    /\ ncalls < MaxRenameCalls
    /\ ncalls' = ncalls + 1
    /\ LET out == rename_columns(df, columns_to_rename)
       IN  /\ prev_df' = df
           /\ df' = out.df
           /\ IF out.exc = "none"
              THEN fpc' = fpc /\ error' = error
              ELSE fpc' = "failed" /\ error' = [exc |-> out.exc, at |-> "rename_columns"]
    /\ UNCHANGED <<columns_to_rename, values_to_rename, sql_table, weather_map_csv>>
    /\ UNCHANGED <<patterns, weather_vars, extract_vars, analysis_vars>>

NextSwap == CallRenameColumns

SpecSwap == InitSwap /\ [][NextSwap]_vars

-----------------------------------------------------------------------------
(* Claims about FieldDataProcessor *)

\* the first entry of columns_to_rename
Column1 == columns_to_rename[1][1]
Column2 == columns_to_rename[1][2]

\* C1: the fused table produced by process() has exactly as many rows as the
\* field table had before the join, whatever the mapping table holds.
C1_JoinPreservesRowCount ==
    fpc = "done" => Len(df.rows) = Len(prev_df.rows)

\* the columns normalization expects of the ingested table
ExpectedColumns ==
    {"Crop_type", "Elevation"}
    \cup (IF Len(columns_to_rename) > 0 THEN {Column1, Column2} ELSE {})

\* C3: when a column that rename_columns or apply_corrections expects is absent
\* from the ingested table, normalization does not complete: it raises.
C3_MissingColumnIsFatal ==
    fpc = "corrected" => \A c \in ExpectedColumns : HasColumn(sql_table, c)

\* C4: when columns_to_rename is empty, the configuration error is raised
\* before anything is ingested: self.df is still None when it is signalled.
C4_EmptyMappingFailsBeforeIngestion ==
    (Len(columns_to_rename) = 0 /\ error.exc = "IndexError") => df = None

\* C8: for a table holding both columns of the first entry (A -> B), one
\* rename_columns call exchanges the two labels and nothing else: the data stays
\* where it was, the column labelled A is now B and the one labelled B is now A,
\* every other label is unchanged (so no column is lost and no placeholder is
\* left), also when the table has columns named like the placeholder.
C8_SwapExchangesTheTwoLabels ==
    (/\ ncalls = 1
     /\ error = NoError
     /\ HasColumn(sql_table, Column1)
     /\ HasColumn(sql_table, Column2))
    => /\ df.rows = sql_table.rows
       /\ Len(df.columns) = Len(sql_table.columns)
       /\ \A i \in 1..Len(sql_table.columns) :
             df.columns[i] = IF sql_table.columns[i] = Column1 THEN Column2
                             ELSE IF sql_table.columns[i] = Column2 THEN Column1
                             ELSE sql_table.columns[i]

\* a swap of two different columns on a table that also has both placeholder names
C8_Witness ==
    /\ ncalls = 1
    /\ error = NoError
    /\ Column1 # Column2
    /\ HasColumn(sql_table, Column1)
    /\ HasColumn(sql_table, Column2)
    /\ HasColumn(sql_table, TempNameBase)
    /\ Len(columns_to_rename) = 2
    /\ df # sql_table

\* C9: two rename_columns calls in a row with the same mapping leave every
\* column with the label and the data it had before the first call.
C9_SwapTwiceRestores ==
    (ncalls = 2 /\ error = NoError) => df = sql_table

\* every raw crop value is canonical or a key mapped to a canonical value
RawCropsCorrectable ==
    \A r \in 1..Len(sql_table.rows) : \A i \in 1..Len(sql_table.columns) :
        LET c == sql_table.rows[r][i]
        IN  c.k = "str" =>
               \/ c.s \in DOMAIN values_to_rename /\ values_to_rename[c.s] \in ValidCropTypes
               \/ c.s \notin DOMAIN values_to_rename /\ c.s \in ValidCropTypes

\* C10: after apply_corrections every crop type that is a key of
\* values_to_rename is the mapped value and every other one is unchanged;
\* apply_corrections raises only for a missing column, never for a value; and
\* when every raw crop value is canonical or a key mapped to a canonical value,
\* every crop type of the processed table is canonical.
C10_ValueCorrection ==
    /\ fpc = "corrected" =>
          \A r \in 1..Len(df.rows) :
             LET old == Column(prev_df, "Crop_type")[r]
                 new == Column(df, "Crop_type")[r]
             IN  IF old.k = "str" /\ old.s \in DOMAIN values_to_rename
                 THEN new = Str(values_to_rename[old.s])
                 ELSE new = old
    /\ error.at = "apply_corrections" =>
          /\ error.exc = "KeyError"
          /\ ~HasColumn(prev_df, "Elevation") \/ ~HasColumn(prev_df, "Crop_type")
    /\ (fpc = "done" /\ RawCropsCorrectable) =>
          \A r \in 1..Len(df.rows) :
             /\ Column(df, "Crop_type")[r].k = "str"
             /\ Column(df, "Crop_type")[r].s \in ValidCropTypes

\* a table with a corrected value and an unknown value left as it was
C10_Witness ==
    /\ fpc = "corrected"
    /\ \E r \in 1..Len(df.rows) :
          /\ Column(prev_df, "Crop_type")[r] = Str("wheatn")
          /\ Column(df, "Crop_type")[r] = Str("wheat")
    /\ \E r \in 1..Len(df.rows) :
          /\ Column(prev_df, "Crop_type")[r] = Str("barley")
          /\ Column(df, "Crop_type")[r] = Str("barley")

\* the size of a number cell without its sign
Magnitude(c) == IF c.n < 0 THEN 0 - c.n ELSE c.n

\* C11: after process() completes every row of the field table has
\* Elevation >= 0, whatever the signs of the raw elevations, and each elevation
\* has the magnitude it had in the raw row: row by row after apply_corrections,
\* and by Field_ID in the fused table, where no raw row is lost.
C11_ElevationNonNegative ==
    /\ fpc \in {"corrected", "done"} =>
          \A r \in 1..Len(df.rows) :
             /\ Column(df, "Elevation")[r].k = "num"
             /\ Column(df, "Elevation")[r].n >= 0
    /\ fpc = "corrected" =>
          /\ Len(df.rows) = Len(sql_table.rows)
          /\ \A r \in 1..Len(df.rows) :
                /\ Column(df, "Elevation")[r].n = Magnitude(Column(sql_table, "Elevation")[r])
                /\ Column(df, "Elevation")[r].e = Column(sql_table, "Elevation")[r].e
    /\ fpc = "done" =>
          /\ \A r \in 1..Len(df.rows) : \E q \in 1..Len(sql_table.rows) :
                /\ Column(df, "Field_ID")[r] = Column(sql_table, "Field_ID")[q]
                /\ Column(df, "Elevation")[r].n = Magnitude(Column(sql_table, "Elevation")[q])
          /\ \A q \in 1..Len(sql_table.rows) : \E r \in 1..Len(df.rows) :
                /\ Column(df, "Field_ID")[r] = Column(sql_table, "Field_ID")[q]
                /\ Column(df, "Elevation")[r].n = Magnitude(Column(sql_table, "Elevation")[q])

\* a processed table with a raw negative elevation and a raw positive one
C11_Witness ==
    /\ fpc = "done"
    /\ \E q \in 1..Len(sql_table.rows) : Column(sql_table, "Elevation")[q].n < 0
    /\ \E q \in 1..Len(sql_table.rows) : Column(sql_table, "Elevation")[q].n > 0
    /\ \A r \in 1..Len(df.rows) : Column(df, "Elevation")[r].n > 0

-----------------------------------------------------------------------------
(* re.search for the patterns of config_params['regex_patterns'] *)

\* A message is a sequence of characters; the character "P" abbreviates the
\* literal text "Pollution at " of the Pollution_level pattern.
\* A pattern is a sequence of alternatives (a|b), an alternative a sequence of:
\*   [e |-> "lit", c |-> ch]      the character ch
\*   [e |-> "ws?"]                \s?
\*   [e |-> "ws*"]                \s*
\*   [e |-> "num", neg |-> b]     (-?\d+(\.\d+)?) when b, (\d+(\.\d+)?) otherwise:
\*                                two capturing groups, the number and its fraction
\* A literal is never a digit, a dot, a minus or a space, so what follows a
\* greedy \d+, (\.\d+)?, \s? or \s* cannot match a character they gave back:
\* the greedy match is the only one, and the matcher need not backtrack.
Lit(ch) == [e |-> "lit", c |-> ch, neg |-> FALSE]
OptSpace == [e |-> "ws?", c |-> "", neg |-> FALSE]
Spaces == [e |-> "ws*", c |-> "", neg |-> FALSE]
Number(neg) == [e |-> "num", c |-> "", neg |-> neg]

Digits == {"0", "1", "2", "3", "4", "5", "6", "7", "8", "9"}
DigitValue(ch) ==
    CASE ch = "0" -> 0 [] ch = "1" -> 1 [] ch = "2" -> 2 [] ch = "3" -> 3
      [] ch = "4" -> 4 [] ch = "5" -> 5 [] ch = "6" -> 6 [] ch = "7" -> 7
      [] ch = "8" -> 8 [] ch = "9" -> 9

\* a capturing group that took no part in the match
NoGroup == <<"None">>

NoMatch == [ok |-> FALSE, start |-> 0, end |-> 0, groups |-> <<>>]

RECURSIVE SkipDigits(_, _)
SkipDigits(m, i) ==
    IF i <= Len(m) /\ m[i] \in Digits THEN SkipDigits(m, i + 1) ELSE i

RECURSIVE SkipSpaces(_, _)
SkipSpaces(m, i) ==
    IF i <= Len(m) /\ m[i] = " " THEN SkipSpaces(m, i + 1) ELSE i

\* (-?\d+(\.\d+)?) at position i
MatchNumber(m, i, neg) ==
    LET start == IF neg /\ i <= Len(m) /\ m[i] = "-" THEN i + 1 ELSE i
        int_end == SkipDigits(m, start)
        frac_end == IF int_end <= Len(m) /\ m[int_end] = "."
                       /\ SkipDigits(m, int_end + 1) > int_end + 1
                    THEN SkipDigits(m, int_end + 1) ELSE int_end
    IN  IF int_end = start THEN NoMatch
        ELSE [ok |-> TRUE, start |-> i, end |-> frac_end,
              groups |-> << SubSeq(m, i, frac_end - 1),
                            IF frac_end > int_end THEN SubSeq(m, int_end, frac_end - 1)
                                                  ELSE NoGroup >>]

\* the elements of one alternative from position i, with the groups so far
RECURSIVE MatchElems(_, _, _, _)
MatchElems(m, i, elems, groups) ==
    IF elems = <<>> THEN [ok |-> TRUE, start |-> 0, end |-> i, groups |-> groups]
    ELSE LET el == Head(elems)
         IN  CASE el.e = "lit" ->
                    IF i <= Len(m) /\ m[i] = el.c
                    THEN MatchElems(m, i + 1, Tail(elems), groups) ELSE NoMatch
               [] el.e = "ws?" ->
                    MatchElems(m, IF i <= Len(m) /\ m[i] = " " THEN i + 1 ELSE i,
                               Tail(elems), groups)
               [] el.e = "ws*" ->
                    MatchElems(m, SkipSpaces(m, i), Tail(elems), groups)
               [] el.e = "num" ->
                    LET n == MatchNumber(m, i, el.neg)
                    IN  IF n.ok THEN MatchElems(m, n.end, Tail(elems), groups \o n.groups)
                        ELSE NoMatch

\* the number of capturing groups of an alternative
RECURSIVE GroupCount(_)
GroupCount(elems) ==
    IF elems = <<>> THEN 0
    ELSE (IF Head(elems).e = "num" THEN 2 ELSE 0) + GroupCount(Tail(elems))

Nones(n) == [i \in 1..n |-> NoGroup]

\* the alternatives from the a-th on, tried in order at position i; the groups
\* of the alternatives that did not match are None
RECURSIVE MatchAt(_, _, _, _, _)
MatchAt(m, i, pattern, a, before) ==
    IF a > Len(pattern) THEN NoMatch
    ELSE LET r == MatchElems(m, i, pattern[a], <<>>)
             after == GroupCount(Flatten(SubSeq(pattern, a + 1, Len(pattern))))
         IN  IF r.ok
             THEN [ok |-> TRUE, start |-> i, end |-> r.end,
                   groups |-> Nones(before) \o r.groups \o Nones(after)]
             ELSE MatchAt(m, i, pattern, a + 1, before + GroupCount(pattern[a]))

\* re.search(pattern, m): the match at the leftmost position that has one
RECURSIVE SearchFrom(_, _, _)
SearchFrom(pattern, m, i) ==
    IF i > Len(m) + 1 THEN NoMatch
    ELSE LET r == MatchAt(m, i, pattern, 1, 0)
         IN  IF r.ok THEN r ELSE SearchFrom(pattern, m, i + 1)

Search(pattern, m) == SearchFrom(pattern, m, 1)

\* the value of a sequence of digits read as a decimal number
RECURSIVE DigitsValue(_)
DigitsValue(ds) ==
    IF ds = <<>> THEN 0 ELSE 10 * DigitsValue(SubSeq(ds, 1, Len(ds) - 1)) + DigitValue(ds[Len(ds)])

\* n * 10^-e without trailing zeros in the fraction
RECURSIVE Normalise(_, _)
Normalise(n, e) ==
    IF e > 0 /\ n % 10 = 0 THEN Normalise(n \div 10, e - 1) ELSE Float(n, e)

\* float(text) for a text of the form -?\d*(\.\d+)?: the number n * 10^-e
ParseFloat(text) ==
    LET neg == text # <<>> /\ Head(text) = "-"
        body == IF neg THEN Tail(text) ELSE text
        dot == IF \E i \in 1..Len(body) : body[i] = "."
               THEN CHOOSE i \in 1..Len(body) : body[i] = "." ELSE Len(body) + 1
        ds == SubSeq(body, 1, dot - 1) \o SubSeq(body, dot + 1, Len(body))
        v == DigitsValue(ds)
    IN  Normalise(IF neg THEN 0 - v ELSE v,
                  IF dot > Len(body) THEN 0 ELSE Len(body) - dot)

-----------------------------------------------------------------------------
(* WeatherDataProcessor.extract_measurement *)

\* regex_patterns of validate_data.py, in its declaration order
RainfallPattern == << <<Number(FALSE), OptSpace, Lit("m"), Lit("m")>> >>
TemperaturePattern == << <<Number(FALSE), OptSpace, Lit("C")>> >>
PollutionPattern == << <<Lit("="), Spaces, Number(TRUE)>>,
                       <<Lit("P"), Spaces, Number(TRUE)>> >>

FixturePatterns ==
    << [key |-> "Rainfall", pattern |-> RainfallPattern],
       [key |-> "Temperature", pattern |-> TemperaturePattern],
       [key |-> "Pollution_level", pattern |-> PollutionPattern] >>

\* the pattern tables: the fixture's entries in every order
PatternTables ==
    { [i \in 1..3 |-> FixturePatterns[perm[i]]] :
        perm \in {f \in [1..3 -> 1..3] : \A i, j \in 1..3 : f[i] = f[j] => i = j} }

\* what extract_measurement returns (a tuple) or raises
Extracted(kind, value) == [exc |-> "none", kind |-> kind, value |-> value]
ExtractRaised(e) == [exc |-> e, kind |-> Null, value |-> Null]

\* next((x for x in match.groups() if x is not None))
RECURSIVE FirstNonNull(_)
FirstNonNull(groups) ==
    IF groups = <<>> THEN NoGroup
    ELSE IF Head(groups) # NoGroup THEN Head(groups)
    ELSE FirstNonNull(Tail(groups))

\* the pattern whose match starts leftmost wins, whatever its place in the table
extract_leftmost(pats, msg) ==
    LET hits == {i \in 1..Len(pats) : Search(pats[i].pattern, msg).ok}
    IN  IF hits = {} THEN Extracted(Null, Null)
        ELSE LET best == CHOOSE i \in hits : \A j \in hits :
                            \/ Search(pats[i].pattern, msg).start < Search(pats[j].pattern, msg).start
                            \/ /\ Search(pats[i].pattern, msg).start = Search(pats[j].pattern, msg).start
                               /\ i <= j
             IN  Extracted(Str(pats[best].key),
                           ParseFloat(FirstNonNull(Search(pats[best].pattern, msg).groups)))

\* for key, pattern in self.patterns.items(): return at the first match.
\* A message that is not a string makes re.search raise; a match without a
\* non-None group makes next() raise.
RECURSIVE extract_from(_, _, _)
extract_from(pats, msg, i) ==
    IF i > Len(pats) THEN Extracted(Null, Null)
    ELSE LET match == Search(pats[i].pattern, msg)
         IN  IF match.ok
             THEN IF FirstNonNull(match.groups) = NoGroup THEN ExtractRaised("StopIteration")
                  ELSE Extracted(Str(pats[i].key), ParseFloat(FirstNonNull(match.groups)))
             ELSE extract_from(pats, msg, i + 1)

extract_measurement(pats, msg) == extract_from(pats, msg, 1)

-----------------------------------------------------------------------------
(* One extract_measurement call on every message and pattern table *)

MaxMessageLen == 3

MessageChars == {"1", "2", ".", "-", " ", "m", "C", "=", "P"}

Messages == SeqsUpTo(MessageChars, MaxMessageLen)

InitExtract ==
    /\ patterns \in PatternTables
    /\ message \in Messages
    /\ result = Unset
    /\ FieldUnused /\ WeatherUnused /\ AnalysisUnused

ExtractMeasurement ==
    /\ result = Unset
    /\ result' = extract_measurement(patterns, message)
    /\ UNCHANGED <<message, patterns, field_vars, weather_vars, analysis_vars>>

NextExtract == ExtractMeasurement

SpecExtract == InitExtract /\ [][NextExtract]_vars

\* C6: extract_measurement returns the kind of the first pattern, in the order
\* of the table, that matches anywhere in the message, whatever the later
\* patterns match, with the value read from the first capturing group of that
\* match that is not None; it returns (None, None) exactly when no pattern matches.
C6_FirstPatternInOrderWins ==
    result # Unset =>
        LET hits == {i \in 1..Len(patterns) : Search(patterns[i].pattern, message).ok}
        IN  IF hits = {} THEN result = Extracted(Null, Null)
            ELSE LET first == CHOOSE i \in hits : \A j \in hits : i <= j
                     groups == Search(patterns[first].pattern, message).groups
                     g == CHOOSE k \in 1..Len(groups) :
                             /\ groups[k] # NoGroup
                             /\ \A j \in 1..(k - 1) : groups[j] = NoGroup
                 IN  /\ result = Extracted(Str(patterns[first].key), ParseFloat(groups[g]))
                     /\ result.kind # Null

\* the first pattern wins although a later pattern matches earlier in the message
C6_Witness ==
    /\ result # Unset
    /\ result.exc = "none"
    /\ result.kind = Str(patterns[1].key)
    /\ \E j \in 2..Len(patterns) :
          /\ Search(patterns[j].pattern, message).ok
          /\ Search(patterns[j].pattern, message).start
                < Search(patterns[1].pattern, message).start

-----------------------------------------------------------------------------
(* WeatherDataProcessor: weather_station_mapping and process_messages *)

MaxWeatherRows == 2

\* messages of the station feed
MessagePool == { <<"1", ".", "2", "C">>, <<"2", "m", "m">>, <<"P", "1">>,
                 <<"=", "1", "C">>, <<"-", "-">> }

StationPool == {0, 1}

\* the tables read_from_web_CSV can return for the weather stations
WeatherTables ==
    { Table(<<"Weather_station_ID", "Message">>,
            [r \in 1..Len(rs) |-> <<Num(rs[r][1]), Text(rs[r][2])>>]) :
        rs \in SeqsUpTo(StationPool \X MessagePool, MaxWeatherRows) }

\* df[c] = cells: the column labelled c is replaced, a new label is appended
AssignColumn(t, c, cells) ==
    IF HasColumn(t, c) THEN SetColumn(t, c, cells)
    ELSE Table(Append(t.columns, c),
               [r \in 1..Len(t.rows) |-> Append(t.rows[r], cells[r])])

\* the two column assignments of line 119, given the extracted tuples
AssignExtracted(wdf, res) ==
    IF \E r \in 1..Len(res) : res[r].exc # "none"
    THEN Raised((CHOOSE x \in Range(res) : x.exc # "none").exc, wdf)
    ELSE IF Len(res) = 0 THEN Raised("ValueError", wdf)
    ELSE With(AssignColumn(wdf, "Measurement", [r \in 1..Len(res) |-> res[r].kind]),
              LAMBDA t1 :
                  Returned(AssignColumn(t1, "Value", [r \in 1..Len(res) |-> res[r].value])))

\* self.weather_df is None: a warning, and None is returned.  Otherwise the
\* right-hand side zip(*result) is evaluated first and unpacked into two
\* targets: of an empty result it yields nothing to unpack.
process_messages(wdf, pats) ==
    IF wdf = None THEN Returned(None)
    ELSE IF ~HasColumn(wdf, "Message") THEN Raised("KeyError", wdf)
    ELSE IF \E r \in 1..Len(wdf.rows) : Column(wdf, "Message")[r].k # "text"
         THEN Raised("TypeError", wdf)
    ELSE With([r \in 1..Len(wdf.rows) |->
                  extract_measurement(pats, Column(wdf, "Message")[r].t)],
              LAMBDA res : AssignExtracted(wdf, res))

\* __init__: weather_df is None
InitWeather ==
    /\ patterns \in PatternTables
    /\ weather_csv \in WeatherTables
    /\ weather_df = None
    /\ wpc = "init"
    /\ returned = Unset
    /\ FieldUnused /\ ExtractUnused /\ AnalysisUnused

WeatherStationMapping ==
    /\ wpc = "init"
    /\ weather_df' = weather_csv
    /\ wpc' = "loaded"
    /\ UNCHANGED <<weather_csv, returned, patterns, field_vars, extract_vars, analysis_vars>>

\* process_messages, called by process() after the load or by a caller at any time
ProcessMessages ==
    /\ wpc \in {"init", "loaded", "processed"}
    /\ LET out == process_messages(weather_df, patterns)
       IN  /\ weather_df' = out.df
           /\ returned' = out
           /\ wpc' = IF out.exc # "none" THEN "failed"
                     ELSE IF wpc = "loaded" THEN "processed" ELSE wpc
    /\ UNCHANGED <<weather_csv, patterns, field_vars, extract_vars, analysis_vars>>

NextWeather == WeatherStationMapping \/ ProcessMessages

SpecWeather == InitWeather /\ [][NextWeather]_vars

\* C5: on every loaded weather table process_messages returns a table with the
\* same rows in the same order, each with its Weather_station_ID and Message,
\* and with Measurement and Value both null where no pattern matches.
C5_ProcessMessagesKeepsEveryRow ==
    (wpc \in {"processed", "failed"}) =>
        /\ returned.exc = "none"
        /\ returned.df = weather_df
        /\ Len(weather_df.rows) = Len(weather_csv.rows)
        /\ \A r \in 1..Len(weather_csv.rows) :
              /\ Column(weather_df, "Weather_station_ID")[r]
                    = Column(weather_csv, "Weather_station_ID")[r]
              /\ Column(weather_df, "Message")[r] = Column(weather_csv, "Message")[r]
              /\ (\A i \in 1..Len(patterns) :
                     ~Search(patterns[i].pattern, Column(weather_csv, "Message")[r].t).ok)
                 => /\ Column(weather_df, "Measurement")[r] = Null
                    /\ Column(weather_df, "Value")[r] = Null

-----------------------------------------------------------------------------
(* analysis.py: hypothesis_results *)

\* the module-level list of line 5
measurements_to_compare == <<"Temperature", "Rainfall", "Pollution_level">>

\* rows of t that satisfy Keep, as positions
RowsWhere(t, Keep(_)) == SelectSeq([r \in 1..Len(t.rows) |-> r], Keep)

\* df[df['Weather_station'] == station_id][measurement]
filter_field_data(fdf, station_id, measurement) ==
    LET rows == RowsWhere(fdf, LAMBDA r : Column(fdf, "Weather_station")[r] = station_id)
    IN  [i \in 1..Len(rows) |-> Column(fdf, measurement)[rows[i]]]

\* df[(df['Weather_station_ID'] == station_id) & (df['Measurement'] == measurement)]['Value']
filter_weather_data(wdf, station_id, measurement) ==
    LET rows == RowsWhere(wdf, LAMBDA r :
                    /\ Column(wdf, "Weather_station_ID")[r] = station_id
                    /\ Column(wdf, "Measurement")[r] = Str(measurement))
    IN  [i \in 1..Len(rows) |-> Column(wdf, "Value")[rows[i]]]

RECURSIVE Pow10(_)
Pow10(k) == IF k = 0 THEN 1 ELSE 10 * Pow10(k - 1)

MaxOf(S) == CHOOSE x \in S : \A y \in S : y <= x

\* the numbers of two samples as integers on a common decimal scale
Scaled(sample, scale) == [i \in 1..Len(sample) |-> sample[i].n * Pow10(scale - sample[i].e)]

\* A p-value: not-a-number, or a number in units of 10^-5
NaN == [nan |-> TRUE, v |-> 0]
PValue(v) == [nan |-> FALSE, v |-> v]

\* the p-values a defined test can give
PValuePool == {PValue(0), PValue(5000), PValue(5001), PValue(100000)}

\* ttest_ind(a, b, equal_var=False): the p-values it can return.  The sample
\* variances use n - 1, so a sample of fewer than two values, or a NaN in a
\* sample, gives NaN; two samples of zero variance give 0/0 = NaN when their
\* means agree and an infinite statistic, p = 0, when they differ.
run_ttest(Column_A, Column_B) ==
    IF Len(Column_A) < 2 \/ Len(Column_B) < 2 THEN {NaN}
    ELSE IF \E c \in Range(Column_A) \cup Range(Column_B) : c.k # "num" THEN {NaN}
    ELSE LET scale == MaxOf({c.e : c \in Range(Column_A) \cup Range(Column_B)})
             a == Scaled(Column_A, scale)
             b == Scaled(Column_B, scale)
             flat_a == \A i \in 1..Len(a) : a[i] = a[1]
             flat_b == \A i \in 1..Len(b) : b[i] = b[1]
         IN  IF flat_a /\ flat_b
             THEN (IF a[1] = b[1] THEN {NaN} ELSE {PValue(0)})
             ELSE PValuePool

\* p_val <= alpha: a comparison with NaN is False
LessEq(p_val, a) == ~p_val.nan /\ p_val.v <= a

\* a printed result line; p_val is printed with {:.5f}, NaN as "nan"
Line(verdict, station_id, measurement, p_val, a) ==
    [verdict |-> verdict, station |-> station_id, measurement |-> measurement,
     p_val |-> p_val, alpha |-> a]

\* print()
Blank == Line("", Null, "", NaN, 0)

print_ttest_results(station_id, measurement, p_val, a) ==
    IF LessEq(p_val, a)
    THEN Line("Significant difference", station_id, measurement, p_val, a)
    ELSE Line("No significant difference", station_id, measurement, p_val, a)

\* a set of number cells as an ascending sequence
RECURSIVE Sorted(_)
Sorted(S) ==
    IF S = {} THEN <<>>
    ELSE LET least == CHOOSE x \in S : \A y \in S : x.n * Pow10(y.e) <= y.n * Pow10(x.e)
         IN  <<least>> \o Sorted(S \ {least})

\* sorted(weather_df['Weather_station_ID'].unique())
unique_station_ids(wdf) == Sorted(Range(Column(wdf, "Weather_station_ID")))

\* the inner loop walks the list the caller passed
loop_measurements_from_argument(list) == list

\* line 31: the inner loop walks the module-level list, not the argument
loop_measurements(list) == measurements_to_compare

-----------------------------------------------------------------------------
(* One hypothesis_results call *)

MaxFusedRows == 2
MaxParsedRows == 2

\* alpha = 0.05 in units of 10^-5
DefaultAlpha == 5000

AlphaPool == {DefaultAlpha, 1000}

\* rows of a fused field table: station, Temperature, Rainfall, Pollution_level
FusedRowPool == { <<Num(0), Num(20), Num(5), Num(1)>>,
                  <<Num(0), Num(22), Num(5), Num(1)>>,
                  <<Null, Num(21), Num(6), Num(2)>> }

FusedTables ==
    { Table(<<"Field_ID", "Temperature", "Rainfall", "Pollution_level", "Weather_station">>,
            [r \in 1..Len(rs) |-> <<Num(r), rs[r][2], rs[r][3], rs[r][4], rs[r][1]>>]) :
        rs \in SeqsUpTo(FusedRowPool, MaxFusedRows) }

\* rows of a parsed weather table: station, message, Measurement, Value
ParsedRowPool ==
    { <<Num(1), Text(<<"2", "5", "C">>), Str("Temperature"), Float(25, 0)>>,
      <<Num(0), Text(<<"2", "4", ".", "5", "C">>), Str("Temperature"), Float(245, 1)>>,
      <<Num(0), Text(<<"5", "m", "m">>), Str("Rainfall"), Float(5, 0)>>,
      <<Num(0), Text(<<"-", "-">>), Null, Null>> }

ParsedTables ==
    { Table(<<"Weather_station_ID", "Message", "Measurement", "Value">>, rs) :
        rs \in SeqsUpTo(ParsedRowPool, MaxParsedRows) }

\* the lists a caller passes as list_measurements_to_compare
ListPool == { measurements_to_compare,
              <<"Pollution_level", "Rainfall", "Temperature">>,
              <<"Rainfall">>,
              <<>> }

InitAnalysis ==
    /\ h_field_df \in FusedTables
    /\ h_weather_df \in ParsedTables
    /\ list_measurements_to_compare \in ListPool
    /\ alpha \in AlphaPool
    /\ hpc = "called"
    /\ station_ix = 0
    /\ measurement_ix = 0
    /\ stdout = <<>>
    /\ patterns = <<>>
    /\ FieldUnused /\ WeatherUnused /\ ExtractUnused

AnalysisArgs == <<h_field_df, h_weather_df, list_measurements_to_compare, alpha>>

\* line 29, and the entry into the station loop
EnterStationLoop ==
    /\ hpc = "called"
    /\ IF unique_station_ids(h_weather_df) = <<>>
       THEN hpc' = "done" /\ station_ix' = 0 /\ measurement_ix' = 0
       ELSE hpc' = "loop" /\ station_ix' = 1 /\ measurement_ix' = 1
    /\ UNCHANGED <<stdout, AnalysisArgs, patterns, field_vars, weather_vars, extract_vars>>

\* lines 33-40: one pass of the inner loop
TestMeasurement ==
    /\ hpc = "loop"
    /\ measurement_ix <= Len(loop_measurements(list_measurements_to_compare))
    /\ LET station_id == unique_station_ids(h_weather_df)[station_ix]
           measurement == loop_measurements(list_measurements_to_compare)[measurement_ix]
       IN  \E p_value \in run_ttest(filter_field_data(h_field_df, station_id, measurement),
                                    filter_weather_data(h_weather_df, station_id, measurement)) :
              stdout' = Append(stdout,
                               print_ttest_results(station_id, measurement, p_value, alpha))
    /\ measurement_ix' = measurement_ix + 1
    /\ UNCHANGED <<hpc, station_ix, AnalysisArgs, patterns, field_vars, weather_vars,
                   extract_vars>>

\* line 41: print() after the inner loop, then the next station or the return
EndStation ==
    /\ hpc = "loop"
    /\ measurement_ix > Len(loop_measurements(list_measurements_to_compare))
    /\ stdout' = Append(stdout, Blank)
    /\ IF station_ix < Len(unique_station_ids(h_weather_df))
       THEN hpc' = hpc /\ station_ix' = station_ix + 1 /\ measurement_ix' = 1
       ELSE hpc' = "done" /\ station_ix' = station_ix /\ measurement_ix' = measurement_ix
    /\ UNCHANGED <<AnalysisArgs, patterns, field_vars, weather_vars, extract_vars>>

NextAnalysis == EnterStationLoop \/ TestMeasurement \/ EndStation

SpecAnalysis == InitAnalysis /\ [][NextAnalysis]_vars

\* C2: a result whose p-value is not a number is never reported with the
\* verdict "No significant difference".
C2_UndefinedPValueIsNotAVerdict ==
    \A i \in 1..Len(stdout) :
        (stdout[i] # Blank /\ stdout[i].p_val.nan)
            => stdout[i].verdict # "No significant difference"

\* C7: the output of a completed call is, for each station in ascending order
\* of Weather_station_ID, one result per kind in the order Temperature,
\* Rainfall, Pollution_level and then one blank line, whatever list the caller
\* passed.
C7_FixedReportingOrder ==
    hpc = "done" =>
        LET ids == Column(h_weather_df, "Weather_station_ID")
            n == Cardinality(Range(ids))
            kinds == <<"Temperature", "Rainfall", "Pollution_level">>
        IN  /\ Len(stdout) = 4 * n
            /\ \A s \in 1..n :
                  /\ stdout[4 * s] = Blank
                  /\ \A k \in 1..3 :
                        /\ stdout[4 * (s - 1) + k] # Blank
                        /\ stdout[4 * (s - 1) + k].measurement = kinds[k]
                        /\ stdout[4 * (s - 1) + k].station \in Range(ids)
                  /\ \A t \in 1..(s - 1) :
                        stdout[4 * (t - 1) + 1].station.n < stdout[4 * (s - 1) + 1].station.n
                  /\ \A k \in 2..3 :
                        stdout[4 * (s - 1) + k].station = stdout[4 * (s - 1) + 1].station

\* two stations that the table lists in descending order, and a caller's list
\* that differs from the canonical one
C7_Witness ==
    /\ hpc = "done"
    /\ Len(stdout) = 8
    /\ Column(h_weather_df, "Weather_station_ID")[1].n
          > Column(h_weather_df, "Weather_station_ID")[2].n
    /\ list_measurements_to_compare = <<"Pollution_level", "Rainfall", "Temperature">>

====
